---- MODULE Spec2Model ----
(***************************************************************************)
(* Model of the ISO 9000 vocabulary structurer, class Iso9000Parser.       *)
(*                                                                         *)
(* The repository holds two versions of the class:                         *)
(*   "multi"  : src/src/iso9000-parser.mts (multi-line term names, remark  *)
(*              and note text stored as read),                             *)
(*   "single" : src/unnamed/part_001, lines 256-627 (one name line per     *)
(*              term, clean*Content applied to remark, notes, examples).   *)
(* Both share parseHtml, findNextCategory and parseTermsInCategory.  The   *)
(* variable `variant` says which class the modelled instance is of.        *)
(*                                                                         *)
(* A string is a sequence of one-character strings, so that the regular    *)
(* expressions and the startsWith / endsWith / trim / replace calls of the *)
(* code are computed on the characters.                                    *)
(***************************************************************************)
EXTENDS Integers, Sequences, FiniteSets, TLC

(***************************************************************************)
(* Strings                                                                 *)
(***************************************************************************)
Digits == {"0", "1", "2", "3", "4", "5", "6", "7", "8", "9"}

\* JavaScript white space as matched by \s and removed by trim();
\* the second one is U+3000, the full-width space.
WhiteSpace == {" ", "FW_"}

\* the value of a variable that was declared and never assigned
Undefined == <<"undefined">>

\* JavaScript truthiness of a string-or-undefined value
Truthy(s) == s # <<>> /\ s # Undefined

startsWith(s, p) == Len(s) >= Len(p) /\ SubSeq(s, 1, Len(p)) = p

endsWith(s, p) == Len(s) >= Len(p) /\ SubSeq(s, Len(s) - Len(p) + 1, Len(s)) = p

\* String.prototype.includes, and RegExp.test for a pattern that is a literal
includes(s, p) == \E i \in 1..(Len(s) - Len(p) + 1) : SubSeq(s, i, i + Len(p) - 1) = p

RECURSIVE trimStart(_)
trimStart(s) == IF s # <<>> /\ Head(s) \in WhiteSpace THEN trimStart(Tail(s)) ELSE s

RECURSIVE trimEnd(_)
trimEnd(s) ==
  IF s # <<>> /\ s[Len(s)] \in WhiteSpace THEN trimEnd(SubSeq(s, 1, Len(s) - 1)) ELSE s

\* String.prototype.trim
trim(s) == trimEnd(trimStart(s))

\* index of the first element of s at or after position i that is in set S,
\* Len(s) + 1 when there is none
RECURSIVE indexOfAny(_, _, _)
indexOfAny(s, S, i) ==
  IF i > Len(s) THEN Len(s) + 1
  ELSE IF s[i] \in S THEN i ELSE indexOfAny(s, S, i + 1)

allDigits(s) == s # <<>> /\ \A i \in 1..Len(s) : s[i] \in Digits

(***************************************************************************)
(* Patterns of the parser                                                  *)
(***************************************************************************)
\* /^3\.(\d+)$/
isCategoryId(line) ==
  /\ Len(line) >= 3
  /\ line[1] = "3"
  /\ line[2] = "."
  /\ allDigits(SubSeq(line, 3, Len(line)))

\* /^3\.(\d+)\.(\d+)$/
isTermId(line) ==
  /\ Len(line) >= 5
  /\ line[1] = "3"
  /\ line[2] = "."
  /\ \E k \in 4..(Len(line) - 1) :
       /\ line[k] = "."
       /\ allDigits(SubSeq(line, 3, k - 1))
       /\ allDigits(SubSeq(line, k + 1, Len(line)))

\* the alternatives of the three regular expressions of isDefinitionLine
definitionPatterns ==
  { <<"wo">>, <<"ni">>, <<"ga">>, <<"no">>, <<"de">>, <<"ha">>, <<"to">>,
    <<"yo", "ri">>, <<"ka", "ra">>, <<"ma", "de">>,
    <<"ni", "tsu", "i", "te">>, <<"ni", "kan", "shi", "te">>,
    <<"ni", "o", "i", "te">>, <<"ni", "yo", "xtsu", "te">>,
    <<"de", "a", "ru">>, <<"de", "su">>, <<"da">>, <<"su", "ru">>,
    <<"sa", "re", "ru">>, <<"de", "ki", "ru">>, <<"mo", "tsu">>, <<"a", "ru">>,
    <<"i", "ru">>, <<"na", "ru">>, <<"tsu">>, <<"maru">>,
    <<"so", "shiki", "(">>, <<"SI", "SU", "TE", "MU", "(">>,
    <<"PU", "RO", "SE", "SU", "(">>, <<"katsu", "dou", "(">>, <<"jou", "kyou", "(">>,
    <<"jyou", "hou", "(">> }

isDefinitionLine(line) == \E p \in definitionPatterns : includes(line, p)

isRemarkLine(line) ==
  \/ startsWith(line, <<"FW(">>) /\ endsWith(line, <<"FW)">>)
  \/ startsWith(line, <<"FW[">>) /\ endsWith(line, <<"FW]">>)

\* content.replace(/^（/, "").replace(/）$/, "")
cleanRemarkContent(content) ==
  LET a == IF startsWith(content, <<"FW(">>) THEN Tail(content) ELSE content
  IN  IF endsWith(a, <<"FW)">>) THEN SubSeq(a, 1, Len(a) - 1) ELSE a

\* the length of the longest prefix of s made of elements of S
RECURSIVE spanOf(_, _)
spanOf(s, S) == IF s # <<>> /\ Head(s) \in S THEN 1 + spanOf(Tail(s), S) ELSE 0

\* content.replace(/^注記\d*\s+/, "")
cleanNoteContent(content) ==
  IF ~startsWith(content, <<"chuu", "kigou">>) THEN content
  ELSE LET r  == SubSeq(content, 3, Len(content))
           r2 == SubSeq(r, spanOf(r, Digits) + 1, Len(r))
           w  == spanOf(r2, WhiteSpace)
       IN  IF w >= 1 THEN SubSeq(r2, w + 1, Len(r2)) ELSE content

\* content.replace(/^例\s+/, "")
cleanExampleContent(content) ==
  IF ~startsWith(content, <<"rei">>) THEN content
  ELSE LET r == Tail(content)
           w == spanOf(r, WhiteSpace)
       IN  IF w >= 1 THEN SubSeq(r, w + 1, Len(r)) ELSE content

(***************************************************************************)
(* Term names                                                              *)
(***************************************************************************)
\* String.prototype.split for a one-character separator
RECURSIVE split(_, _)
split(s, sep) ==
  LET i == indexOfAny(s, {sep}, 1)
  IN  IF i > Len(s) THEN <<s>>
      ELSE <<SubSeq(s, 1, i - 1)>> \o split(SubSeq(s, i + 1, Len(s)), sep)

\* Array.prototype.join
RECURSIVE join(_, _)
join(parts, sep) ==
  IF parts = <<>> THEN <<>>
  ELSE IF Len(parts) = 1 THEN parts[1]
  ELSE parts[1] \o sep \o join(Tail(parts), sep)

\* s.replace(/\s+/g, " ")
RECURSIVE collapseWhiteSpace(_)
collapseWhiteSpace(s) ==
  IF s = <<>> THEN <<>>
  ELSE IF Head(s) \in WhiteSpace
       THEN <<" ">> \o collapseWhiteSpace(SubSeq(s, spanOf(s, WhiteSpace) + 1, Len(s)))
       ELSE <<Head(s)>> \o collapseWhiteSpace(Tail(s))

\* The match of /^([^O]+)\s*[O]([^C]+)[C]/ on s, where O is the set of opening
\* and C the set of closing characters: <<group 1, group 2>>, or <<>> when the
\* expression does not match.  Group 1 is greedy and cannot hold an opening
\* character, so it ends right before the first one; group 2 cannot hold a
\* closing character, so it ends right before the first one after that.
matchParenthesized(s, O, C) ==
  LET i == indexOfAny(s, O, 1)
      j == indexOfAny(s, C, i + 1)
  IN  IF i >= 2 /\ i <= Len(s) /\ j <= Len(s) /\ j > i + 1
      THEN <<SubSeq(s, 1, i - 1), SubSeq(s, i + 1, j - 1)>>
      ELSE <<>>

\* parseTermName of src/src/iso9000-parser.mts: the name split on the first
\* parenthesised part; englishTerm is Undefined when the record has no such field
parseTermNameMulti(termNameLine) ==
  LET englishMatch == matchParenthesized(termNameLine, {"FW(", "("}, {"FW)", ")"})
  IN  IF englishMatch # <<>>
      THEN [term |-> trim(englishMatch[1]), englishTerm |-> trim(englishMatch[2])]
      ELSE [term |-> termNameLine, englishTerm |-> Undefined]

\* /（[^）]+），[^（]+（[^）]+）/.test(termNameLine)
\* bug: the test for several sub-terms never succeeds
hasMultipleTermsNever(s) == FALSE

hasMultipleTermsWithParentheses(s) ==
  \E a \in 1..Len(s) :
    /\ s[a] = "FW("
    /\ LET b == indexOfAny(s, {"FW)"}, a + 1)
           c == indexOfAny(s, {"FW("}, b + 2)
           d == indexOfAny(s, {"FW)"}, c + 1)
       IN  /\ a + 1 < b /\ b + 1 <= Len(s) /\ s[b + 1] = "FW,"
           /\ b + 2 < c /\ c <= Len(s)
           /\ c + 1 < d /\ d <= Len(s)

\* the loop of parseMultipleTermsWithParentheses over the parts from index k on
RECURSIVE multipleTermsFrom(_, _)
multipleTermsFrom(parts, k) ==
  IF k > Len(parts) THEN [japaneseTerms |-> <<>>, englishTerms |-> <<>>]
  ELSE LET trimmedPart == trim(parts[k])
           match == matchParenthesized(trimmedPart, {"FW("}, {"FW)"})
           rest == multipleTermsFrom(parts, k + 1)
       IN  IF match # <<>>
           THEN [japaneseTerms |-> <<trim(match[1])>> \o rest.japaneseTerms,
                 englishTerms |-> <<collapseWhiteSpace(trim(match[2]))>> \o rest.englishTerms]
           ELSE [japaneseTerms |-> <<trimmedPart>> \o rest.japaneseTerms,
                 englishTerms |-> rest.englishTerms]

parseMultipleTermsWithParentheses(input) == multipleTermsFrom(split(input, "FW,"), 1)

trimAll(parts) == [k \in 1..Len(parts) |-> trim(parts[k])]

processCommaSeparatedTerms(input) ==
  IF includes(input, <<"FW,">>) THEN join(trimAll(split(input, "FW,")), <<"FW,">>)
  ELSE IF includes(input, <<",">>) THEN join(trimAll(split(input, ",")), <<",", " ">>)
  ELSE input

\* parseTermName of src/unnamed/part_001, from the trimmed name line on
parseTermNameSingle(termNameLine) ==
  IF hasMultipleTermsWithParentheses(termNameLine)
  THEN LET r == parseMultipleTermsWithParentheses(termNameLine)
       IN  [term |-> join(r.japaneseTerms, <<"FW,">>),
            englishTerm |-> join(r.englishTerms, <<",", " ">>)]
  ELSE LET englishMatch == matchParenthesized(termNameLine, {"FW("}, {"FW)"})
       IN  IF englishMatch # <<>>
           THEN [term |-> processCommaSeparatedTerms(trim(englishMatch[1])),
                 englishTerm |-> processCommaSeparatedTerms(trim(englishMatch[2]))]
           ELSE [term |-> processCommaSeparatedTerms(termNameLine),
                 englishTerm |-> Undefined]

(***************************************************************************)
(* Input documents                                                         *)
(*                                                                         *)
(* An HTML document is modelled by the sequence of the contents of its <p> *)
(* elements (group 1 of paragraphPattern), before trimming.  The documents *)
(* checked are the concatenations of at most MaxGroups groups of           *)
(* paragraphs.                                                             *)
(***************************************************************************)
MaxGroups == 3

\* the number of parseHtml calls made on one parser instance
MaxCalls == 2

cat1 == <<"3", ".", "1">>
cat2 == <<"3", ".", "2">>
tid1 == <<"3", ".", "1", ".", "1">>
tid2 == <<"3", ".", "1", ".", "2">>
\* a plain name or title, with no marker of isDefinitionLine
plain == <<"h", "s">>
\* primary（secondary）
bilingual == <<"h", "FW(", "q", "FW)">>
\* a sentence: a particle and the full stop
sentence == <<"t", "no", "d", "maru">>
note == <<"chuu", "kigou", "1", " ", "n", "maru">>
example == <<"rei", " ", "e", "maru">>
\* a bilingual name whose primary part holds a particle
bilingualNo == <<"h", "no", "j", "FW(", "q", "FW)">>
\* two sub-terms joined by a full-width comma: k（x），m（y）
multiName == <<"k", "FW(", "x", "FW)", "FW,", "m", "FW(", "y", "FW)">>
remarkParen == <<"FW(", "r", "FW)">>
remarkSquare == <<"FW[", "r", "FW]">>
blank == <<" ">>
padded == <<" ">> \o sentence \o <<" ">>

Groups ==
  { <<cat1>>, <<tid1>>, <<plain>>, <<sentence>>, <<note>>, <<example>>,
    <<remarkParen>>, <<remarkSquare>>, <<bilingualNo>>, <<multiName>>,
    <<cat1, blank, plain>>, <<cat1, plain, tid1>>, <<plain, sentence>>,
    <<remarkParen, plain>>,
    <<tid1, bilingual, padded>>, <<tid2, plain, sentence>>,
    <<cat1, plain, tid1, bilingual, sentence>>,
    <<cat2, plain, tid2, plain, sentence>> }

RECURSIVE concatGroups(_)
concatGroups(gs) == IF gs = <<>> THEN <<>> ELSE Head(gs) \o concatGroups(Tail(gs))

HtmlInputs ==
  { concatGroups(gs) : gs \in UNION { [1..n -> Groups] : n \in 0..MaxGroups } }

\* the lines of the documents checked
Blocks == UNION { { trim(g[i]) : i \in DOMAIN g } : g \in Groups }

\* parseTermName of src/unnamed/part_001 tabulated over these lines
parseTermNameOfBlock == [termNameLine \in Blocks |-> parseTermNameSingle(termNameLine)]

(***************************************************************************)
(* The parser                                                              *)
(***************************************************************************)
VARIABLES
  variant,          \* which of the two classes the instance is of
  lines,            \* this.lines
  currentIndex,     \* this.currentIndex (0-based, as in the code)
  pc,               \* the loop the pass is in
  calls,            \* the number of parseHtml calls so far
  categories,       \* parseHtml: categories
  totalTerms,       \* parseHtml: totalTerms
  categoryInfo,     \* parseHtml: categoryInfo
  terms,            \* parseTermsInCategory: terms
  termId,           \* parseSingleTerm: termId
  termNameContent,  \* parseTermNameMultiLine: termNameContent
  termName,         \* parseSingleTerm: { term, englishTerm }
  definition,       \* parseTermContent: definition
  notes,            \* parseTermContent: notes
  examples,         \* parseTermContent: examples
  remark,           \* parseTermContent: remark
  currentState,     \* parseTermContent: currentState
  currentContent,   \* parseTermContent: currentContent
  returned,         \* history: <<lines, document>> of every finished call
  boundaryAt,       \* history: index of the id block of categoryInfo
  foundAt,          \* history: indices of the id blocks of the boundaries found
  emittedAt,        \* history: indices of the id blocks of the categories pushed
  termAt,           \* history: index of the id block of termId
  droppedAt,        \* history: indices of the id blocks of the terms dropped
  contentAt,        \* history: index of the cursor when parseTermContent starts
  keptAt,           \* history: id index, content range and value of the terms kept
  droppedBlocks,    \* history: indices of the blocks of the terms dropped
  html,             \* history: the paragraphs given to the call
  categoryTerms,    \* JsonConverter: the terms of a category, given to sortTerms
  processedTerms,   \* JsonConverter: processedTerms of convertToJson
  converterPc       \* JsonConverter: "idle", "sortTerms" or "sorted"

fields == <<lines, currentIndex>>
parseHtmlLocals == <<categories, totalTerms, categoryInfo, terms>>
termLocals == <<termId, termNameContent, termName>>
contentLocals == <<definition, notes, examples, remark, currentState, currentContent>>
history == <<returned, boundaryAt, foundAt, emittedAt, termAt, droppedAt,
             contentAt, keptAt, droppedBlocks, html>>
converter == <<categoryTerms, processedTerms, converterPc>>
vars == <<variant, fields, pc, calls, parseHtmlLocals, termLocals, contentLocals, history,
          converter>>

\* this.lines[i]?.trim(); outside the array the value is undefined, which the
\* code treats as it treats the empty string
lineAt(i) == IF i + 1 \in DOMAIN lines THEN trim(lines[i + 1]) ELSE <<>>

\* bug: the test if (content) is forgotten
extractParagraphsKeepsBlank(htmlContent) ==
  [p \in 1..Len(htmlContent) |-> trim(htmlContent[p])]

RECURSIVE extractParagraphs(_)
extractParagraphs(htmlContent) ==
  IF htmlContent = <<>> THEN <<>>
  ELSE LET content == trim(Head(htmlContent))
       IN  (IF content # <<>> THEN <<content>> ELSE <<>>)
             \o extractParagraphs(Tail(htmlContent))

NoCategory == [id |-> <<>>, title |-> <<>>]
NoName == [term |-> <<>>, englishTerm |-> Undefined]

ParserInit ==
  /\ variant \in {"multi", "single"}
  /\ lines = <<>>
  /\ currentIndex = 0
  /\ pc = "idle"
  /\ calls = 0
  /\ categories = <<>>
  /\ totalTerms = 0
  /\ categoryInfo = NoCategory
  /\ terms = <<>>
  /\ termId = <<>>
  /\ termNameContent = <<>>
  /\ termName = NoName
  /\ definition = <<>>
  /\ notes = <<>>
  /\ examples = <<>>
  /\ remark = Undefined
  /\ currentState = "definition"
  /\ currentContent = <<>>
  /\ returned = <<>>
  /\ boundaryAt = 0
  /\ foundAt = <<>>
  /\ emittedAt = <<>>
  /\ termAt = 0
  /\ droppedAt = <<>>
  /\ contentAt = 0
  /\ keptAt = <<>>
  /\ droppedBlocks = {}
  /\ html = <<>>

\* a new parser, and a converter that has not been called
Init ==
  /\ ParserInit
  /\ categoryTerms = <<>>
  /\ processedTerms = <<>>
  /\ converterPc = "idle"

\* bug: the increment is forgotten
incrementStuck(i) == i

\* bug: -- written for ++
decrement(i) == i - 1

\* this.currentIndex++
increment(i) == i + 1

isBoundary(line) == isTermId(line) \/ isCategoryId(line)

DefaultTitle == "ISO 9000 Terms"

\* the object parseHtml returns; extractedAt is the time of the call, modelled
\* by the number of the call
makeDocument(cats, total, now) ==
  [metadata |-> [title |-> DefaultTitle,
                 extractedAt |-> now,
                 totalTerms |-> total,
                 totalCategories |-> Len(cats)],
   categories |-> cats]

\* bug: the test terms.length > 0 is forgotten
pushCategoryAlways(cats, info, ts) ==
  Append(cats, [id |-> info.id, name |-> info.title, terms |-> ts])

\* bug: unshift written for push
pushCategoryFront(cats, info, ts) ==
  IF Len(ts) > 0 THEN <<[id |-> info.id, name |-> info.title, terms |-> ts]>> \o cats
  ELSE cats

\* parseHtml, the body of the loop after parseTermsInCategory has returned ts
pushCategory(cats, info, ts) ==
  IF Len(ts) > 0 THEN Append(cats, [id |-> info.id, name |-> info.title, terms |-> ts])
  ELSE cats

\* bug: = written for +=
addTermsAssign(total, ts) == IF Len(ts) > 0 THEN Len(ts) ELSE total

\* totalTerms += terms.length, inside the same if
addTerms(total, ts) == IF Len(ts) > 0 THEN total + Len(ts) ELSE total

\* bug: the test of the definition is forgotten
hasDefinitionAlways(def) == TRUE

\* parseSingleTerm / parseSingleTermWithId: if (!definition) return null
hasDefinition(def) == Truthy(def)

\* bug: the englishTerm of the name is not copied into the term
makeTermDefNoEnglish(id, name, def, ns, es, rem) ==
  [id |-> id, term |-> name.term, definition |-> def]
    @@ (IF Len(ns) > 0 THEN [notes |-> ns] ELSE <<>>)
    @@ (IF Len(es) > 0 THEN [examples |-> es] ELSE <<>>)
    @@ (IF Truthy(rem) THEN [remark |-> rem] ELSE <<>>)

\* bug: notes and examples are set whether or not they hold anything
makeTermDefEmptyLists(id, name, def, ns, es, rem) ==
  [id |-> id, term |-> name.term, definition |-> def, notes |-> ns, examples |-> es]
    @@ (IF Truthy(name.englishTerm) THEN [englishTerm |-> name.englishTerm] ELSE <<>>)
    @@ (IF Truthy(rem) THEN [remark |-> rem] ELSE <<>>)

\* the TermDefinition built by parseSingleTerm / parseSingleTermWithId; a field
\* that the code does not set is not in the record
makeTermDef(id, name, def, ns, es, rem) ==
  [id |-> id, term |-> name.term, definition |-> def]
    @@ (IF Truthy(name.englishTerm) THEN [englishTerm |-> name.englishTerm] ELSE <<>>)
    @@ (IF Len(ns) > 0 THEN [notes |-> ns] ELSE <<>>)
    @@ (IF Len(es) > 0 THEN [examples |-> es] ELSE <<>>)
    @@ (IF Truthy(rem) THEN [remark |-> rem] ELSE <<>>)

\* remark = line (multi) / remark = this.cleanRemarkContent(line) (single)
remarkOf(v, line) == IF v = "single" THEN cleanRemarkContent(line) ELSE line

\* bug: the block after an unrecognized block is passed with it
passBlockAndNext(i) == i + 2

\* this.currentIndex++ of parseTermsInCategory at a blank or unrecognized block
passBlock(i) == increment(i)

\* bug: the array is shared by the terms and never emptied
keptNotes(old) == old

\* const notes: string[] = []: every call of parseTermContent has an empty
\* array of its own
freshNotes(old) == <<>>

\* bug: the first remark of a term is kept and the later ones are ignored
setRemarkOnce(v, old, line) == IF Truthy(old) THEN old ELSE remarkOf(v, line)

\* the assignment to remark of parseTermContent: the new value replaces the old
setRemark(v, old, line) == remarkOf(v, line)

\* bug: a remark block sends the classifier back to the definition
stateAfterRemarkResets(state, site) ==
  IF site = "remark" THEN "definition"
  ELSE IF site = "continue" THEN state
  ELSE site

\* currentState after a block: a note or example marker sets it, a remark or a
\* continuation block leaves it as it is
stateAfter(state, site) == IF site \in {"remark", "continue"} THEN state ELSE site

\* bug: the lines are joined with a blank between them
appendLineSpaced(content, line) ==
  IF content = <<>> THEN line ELSE content \o <<" ">> \o line

\* termNameContent += line / currentContent += line: no separator
appendLine(content, line) == content \o line

\* Is the text kept by the "save previous content" code?  multi tests
\* currentContent, single tests currentContent.trim()
hasContent(v, content) == IF v = "single" THEN trim(content) # <<>> ELSE content # <<>>

\* The four copies of the "save previous content" code of parseTermContent:
\* site is "remark", "note", "example" or "final".  Only single cleans the text,
\* and not at the remark site.  acc is [definition, notes, examples].
saveContent(v, site, state, content, acc) ==
  LET text  == trim(content)
      clean == v = "single" /\ site # "remark"
  IN  IF ~hasContent(v, content) THEN acc
      ELSE IF state = "definition" THEN [acc EXCEPT !.definition = text]
      ELSE IF state = "note"
           THEN [acc EXCEPT !.notes =
                   Append(@, IF clean THEN cleanNoteContent(text) ELSE text)]
      ELSE [acc EXCEPT !.examples =
              Append(@, IF clean THEN cleanExampleContent(text) ELSE text)]

(***************************************************************************)
(* parseHtml is called: the fields are reset and the locals are fresh.     *)
(* The first call is given any document of HtmlInputs; a later call on the *)
(* same instance is given the paragraphs of the call before once more, or  *)
(* without the blocks of the terms it dropped, or with one more block      *)
(* after the title of a category it found.                                 *)
(***************************************************************************)
\* the blocks of ls whose 0-based index is not in S
RECURSIVE removeBlocks(_, _, _)
removeBlocks(ls, S, i) ==
  IF ls = <<>> THEN <<>>
  ELSE (IF i \in S THEN <<>> ELSE <<Head(ls)>>) \o removeBlocks(Tail(ls), S, i + 1)

\* ls with the block b put in at the 0-based index i
insertBlock(ls, i, b) == SubSeq(ls, 1, i) \o <<b>> \o SubSeq(ls, i + 1, Len(ls))

\* a block that matches neither id pattern
stray == note

laterInputs ==
  {lines, removeBlocks(lines, droppedBlocks, 0)}
    \cup { insertBlock(lines, foundAt[n] + 2, stray) : n \in DOMAIN foundAt }

\* bug: this.currentIndex = 0 is forgotten
ParseHtmlKeepsIndex ==
  /\ pc \in {"idle", "done"}
  /\ calls < MaxCalls
  /\ \E htmlContent \in (IF calls = 0 THEN HtmlInputs ELSE laterInputs) :
       /\ html' = htmlContent
       /\ lines' = extractParagraphs(htmlContent)
  /\ currentIndex' = currentIndex
  /\ calls' = calls + 1
  /\ categories' = <<>>
  /\ totalTerms' = 0
  /\ pc' = "parseHtml"
  /\ boundaryAt' = 0
  /\ foundAt' = <<>>
  /\ emittedAt' = <<>>
  /\ droppedAt' = <<>>
  /\ keptAt' = <<>>
  /\ droppedBlocks' = {}
  /\ UNCHANGED <<converter, variant, categoryInfo, terms, termLocals, contentLocals, returned, termAt,
                 contentAt>>

ParseHtml ==
  /\ pc \in {"idle", "done"}
  /\ calls < MaxCalls
  /\ \E htmlContent \in (IF calls = 0 THEN HtmlInputs ELSE laterInputs) :
       /\ html' = htmlContent
       /\ lines' = extractParagraphs(htmlContent)
  /\ currentIndex' = 0
  /\ calls' = calls + 1
  /\ categories' = <<>>
  /\ totalTerms' = 0
  /\ pc' = "parseHtml"
  /\ boundaryAt' = 0
  /\ foundAt' = <<>>
  /\ emittedAt' = <<>>
  /\ droppedAt' = <<>>
  /\ keptAt' = <<>>
  /\ droppedBlocks' = {}
  /\ UNCHANGED <<converter, variant, categoryInfo, terms, termLocals, contentLocals, returned, termAt,
                 contentAt>>

\* return { metadata, categories }: the call ends and its locals with it
Return ==
  /\ returned' = Append(returned,
                   [lines |-> lines,
                    document |-> makeDocument(categories, totalTerms, calls),
                    found |-> foundAt,
                    dropped |-> droppedBlocks])
  /\ pc' = "done"
  /\ categories' = <<>>
  /\ totalTerms' = 0
  /\ categoryInfo' = NoCategory
  /\ UNCHANGED <<terms, boundaryAt, foundAt, emittedAt, termAt, droppedAt,
                 contentAt, keptAt, droppedBlocks, html>>

\* the test of the while loop of parseHtml
ParseHtmlLoop ==
  /\ pc = "parseHtml"
  /\ IF currentIndex < Len(lines)
     THEN /\ pc' = "findNextCategory"
          /\ UNCHANGED <<parseHtmlLocals, history>>
     ELSE Return
  /\ UNCHANGED <<converter, variant, fields, calls, termLocals, contentLocals>>

\* one turn of the while loop of findNextCategory
FindNextCategory ==
  /\ pc = "findNextCategory"
  /\ IF currentIndex >= Len(lines)
     THEN \* return null; parseHtml breaks out of its loop
          /\ Return
          /\ UNCHANGED currentIndex
     ELSE LET line == lineAt(currentIndex)
              afterId == increment(currentIndex)
          IN  IF line = <<>>
              THEN /\ currentIndex' = increment(currentIndex)
                   /\ UNCHANGED <<pc, parseHtmlLocals, history>>
              ELSE IF isCategoryId(line)
                        /\ afterId < Len(lines) /\ lineAt(afterId) # <<>>
              THEN /\ currentIndex' = increment(afterId)
                   /\ categoryInfo' = [id |-> line, title |-> lineAt(afterId)]
                   /\ boundaryAt' = currentIndex
                   /\ foundAt' = Append(foundAt, currentIndex)
                   /\ terms' = <<>>
                   /\ pc' = "parseTermsInCategory"
                   /\ UNCHANGED <<categories, totalTerms, returned, emittedAt, termAt,
                                  droppedAt, contentAt, keptAt, droppedBlocks, html>>
              ELSE \* no title: the id is passed, then the statement after the if
                   /\ currentIndex' =
                        IF isCategoryId(line) THEN increment(afterId)
                        ELSE increment(currentIndex)
                   /\ UNCHANGED <<pc, parseHtmlLocals, history>>
  /\ UNCHANGED <<converter, variant, lines, calls, termLocals, contentLocals>>

\* one turn of the while loop of parseTermsInCategory; when the loop ends the
\* terms are returned to parseHtml, which pushes the category
ParseTermsInCategory ==
  /\ pc = "parseTermsInCategory"
  /\ IF currentIndex >= Len(lines)
        \/ (lineAt(currentIndex) # <<>> /\ isCategoryId(lineAt(currentIndex)))
     THEN /\ categories' = pushCategory(categories, categoryInfo, terms)
          /\ totalTerms' = addTerms(totalTerms, terms)
          /\ emittedAt' = IF Len(pushCategory(categories, categoryInfo, terms))
                               > Len(categories)
                          THEN Append(emittedAt, boundaryAt) ELSE emittedAt
          /\ terms' = <<>>
          /\ categoryInfo' = NoCategory
          /\ pc' = "parseHtml"
          /\ UNCHANGED <<currentIndex, termLocals, contentLocals,
                         returned, boundaryAt, foundAt, termAt, droppedAt,
                         contentAt, keptAt, droppedBlocks, html>>
     ELSE /\ LET line == lineAt(currentIndex)
                 afterId == increment(currentIndex)
             IN  IF line # <<>> /\ isTermId(line)
                 THEN IF variant = "multi"
                      THEN \* parseSingleTerm up to the call of parseTermNameMultiLine
                           /\ termId' = line
                           /\ termAt' = currentIndex
                           /\ currentIndex' = afterId
                           /\ termNameContent' = <<>>
                           /\ pc' = "parseTermNameMultiLine"
                           /\ UNCHANGED <<termName, contentLocals, contentAt>>
                      ELSE \* parseSingleTermWithId and the whole of parseTermName
                           /\ termId' = line
                           /\ termAt' = currentIndex
                           /\ IF afterId >= Len(lines)
                              THEN /\ termName' = NoName
                                   /\ currentIndex' = afterId
                              ELSE /\ termName' = parseTermNameOfBlock[lineAt(afterId)]
                                   /\ currentIndex' = increment(afterId)
                           /\ definition' = <<>>
                           /\ notes' = freshNotes(notes)
                           /\ examples' = <<>>
                           /\ remark' = Undefined
                           /\ currentState' = "definition"
                           /\ currentContent' = <<>>
                           /\ pc' = "parseTermContent"
                           /\ contentAt' = currentIndex'
                           /\ UNCHANGED termNameContent
                 ELSE \* a blank or an unrecognized block
                      /\ currentIndex' = passBlock(currentIndex)
                      /\ UNCHANGED <<pc, termLocals, contentLocals, termAt, contentAt>>
          /\ UNCHANGED <<parseHtmlLocals, returned, boundaryAt, foundAt, emittedAt,
                         droppedAt, keptAt, droppedBlocks, html>>
  /\ UNCHANGED <<converter, variant, lines, calls>>

\* one turn of the while loop of parseTermNameMultiLine (multi only); when the
\* loop ends parseTermName splits the name and parseTermContent starts
ParseTermNameMultiLine ==
  /\ pc = "parseTermNameMultiLine"
  /\ IF currentIndex >= Len(lines)
        \/ (lineAt(currentIndex) # <<>>
              /\ (isBoundary(lineAt(currentIndex))
                    \/ isDefinitionLine(lineAt(currentIndex))))
     THEN /\ termName' = parseTermNameMulti(termNameContent)
          /\ termNameContent' = <<>>
          /\ definition' = <<>>
          /\ notes' = freshNotes(notes)
          /\ examples' = <<>>
          /\ remark' = Undefined
          /\ currentState' = "definition"
          /\ currentContent' = <<>>
          /\ pc' = "parseTermContent"
          /\ contentAt' = currentIndex
          /\ UNCHANGED <<currentIndex, termId>>
     ELSE /\ termNameContent' = appendLine(termNameContent, lineAt(currentIndex))
          /\ currentIndex' = increment(currentIndex)
          /\ UNCHANGED <<pc, termId, termName, contentLocals, contentAt>>
  /\ UNCHANGED <<converter, variant, lines, calls, parseHtmlLocals, returned, boundaryAt, foundAt,
                 emittedAt, termAt, droppedAt, keptAt, droppedBlocks, html>>

\* one turn of the while loop of parseTermContent; when the loop ends the
\* content is saved a last time and parseSingleTerm builds the term or drops it
ParseTermContent ==
  /\ pc = "parseTermContent"
  /\ LET acc == [definition |-> definition, notes |-> notes, examples |-> examples]
     IN  IF currentIndex >= Len(lines)
            \/ (lineAt(currentIndex) # <<>> /\ isBoundary(lineAt(currentIndex)))
         THEN LET r == saveContent(variant, "final", currentState, currentContent, acc)
              IN  /\ terms' =
                       IF hasDefinition(r.definition)
                       THEN Append(terms, makeTermDef(termId, termName, r.definition,
                                                      r.notes, r.examples, remark))
                       ELSE terms
                  /\ droppedAt' = IF hasDefinition(r.definition) THEN droppedAt
                                  ELSE Append(droppedAt, termAt)
                  /\ keptAt' =
                       IF hasDefinition(r.definition)
                       THEN Append(keptAt,
                              [at |-> termAt, content |-> contentAt, end |-> currentIndex,
                               cat |-> boundaryAt,
                               def |-> makeTermDef(termId, termName, r.definition,
                                                   r.notes, r.examples, remark)])
                       ELSE keptAt
                  /\ droppedBlocks' =
                       IF hasDefinition(r.definition) THEN droppedBlocks
                       ELSE droppedBlocks \cup termAt..(currentIndex - 1)
                  /\ termId' = <<>>
                  /\ termName' = NoName
                  /\ definition' = <<>>
                  /\ notes' = freshNotes(r.notes)
                  /\ examples' = <<>>
                  /\ remark' = Undefined
                  /\ currentState' = "definition"
                  /\ currentContent' = <<>>
                  /\ pc' = "parseTermsInCategory"
                  /\ UNCHANGED <<currentIndex, termNameContent>>
         ELSE LET line == lineAt(currentIndex)
                  site == IF isRemarkLine(line) THEN "remark"
                          ELSE IF startsWith(line, <<"chuu", "kigou">>) THEN "note"
                          ELSE IF startsWith(line, <<"rei">>) THEN "example"
                          ELSE "continue"
                  r == IF site = "continue" \/ line = <<>> THEN acc
                       ELSE saveContent(variant, site, currentState, currentContent, acc)
              IN  /\ definition' = r.definition
                  /\ notes' = r.notes
                  /\ examples' = r.examples
                  /\ remark' = IF line # <<>> /\ site = "remark"
                               THEN setRemark(variant, remark, line) ELSE remark
                  /\ currentState' = IF line = <<>> THEN currentState
                                     ELSE stateAfter(currentState, site)
                  /\ currentContent' =
                       IF line = <<>> THEN currentContent
                       ELSE IF site = "remark" THEN <<>>
                       ELSE IF site = "continue" THEN appendLine(currentContent, line)
                       ELSE line
                  /\ currentIndex' = increment(currentIndex)
                  /\ UNCHANGED <<pc, terms, termLocals, droppedAt, keptAt, droppedBlocks>>
  /\ UNCHANGED <<converter, variant, lines, calls, categories, totalTerms, categoryInfo,
                 returned, boundaryAt, foundAt, emittedAt, termAt, contentAt, html>>

Next ==
  \/ ParseHtml
  \/ ParseHtmlLoop
  \/ FindNextCategory
  \/ ParseTermsInCategory
  \/ ParseTermNameMultiLine
  \/ ParseTermContent

Spec == Init /\ [][Next]_vars

(***************************************************************************)
(* JsonConverter.sortTerms                                                 *)
(***************************************************************************)
MaxTerms == 3

SortIds ==
  { <<"3", ".", "1", ".", "2">>, <<"3", ".", "1", ".", "1", "0">>,
    <<"3", ".", "1">>, <<"3", ".", "1", ".", "0">>,
    <<"3", ".", "2", ".", "1">>, <<"3", ".", "h">> }

SortNames == { <<"h">>, <<"q">> }

SortTermDefs == [id : SortIds, term : SortNames]

TermLists == UNION { [1..n -> SortTermDefs] : n \in 0..MaxTerms }

digitValue(c) ==
  CHOOSE n \in 0..9 : <<"0", "1", "2", "3", "4", "5", "6", "7", "8", "9">>[n + 1] = c

RECURSIVE decimal(_)
decimal(s) ==
  IF s = <<>> THEN 0
  ELSE decimal(SubSeq(s, 1, Len(s) - 1)) * 10 + digitValue(s[Len(s)])

\* Number(s): the empty string is 0, a string of digits its value, anything
\* else NaN
Number(s) ==
  IF trim(s) = <<>> THEN [nan |-> FALSE, value |-> 0]
  ELSE IF allDigits(trim(s)) THEN [nan |-> FALSE, value |-> decimal(trim(s))]
  ELSE [nan |-> TRUE, value |-> 0]

\* id.split(".").map(Number)
numbersOf(id) ==
  LET parts == split(id, ".") IN [i \in 1..Len(parts) |-> Number(parts[i])]

\* numbers[i] || 0: undefined, NaN and 0 all give 0
orZero(numbers, i) ==
  IF i \in DOMAIN numbers /\ ~numbers[i].nan THEN numbers[i].value ELSE 0

maxOf(m, n) == IF m >= n THEN m ELSE n

\* bug: the ids are compared as text, the default of Array.prototype.sort
RECURSIVE compareAsText(_, _)
compareAsText(a, b) ==
  LET order == <<".", "0", "1", "2", "3", "4", "5", "6", "7", "8", "9", "h">>
      rank(c) == CHOOSE n \in 1..Len(order) : order[n] = c
  IN  IF a.id = <<>> /\ b.id = <<>> THEN 0
      ELSE IF a.id = <<>> THEN -1
      ELSE IF b.id = <<>> THEN 1
      ELSE IF Head(a.id) # Head(b.id) THEN rank(Head(a.id)) - rank(Head(b.id))
      ELSE compareAsText([a EXCEPT !.id = Tail(a.id)], [b EXCEPT !.id = Tail(b.id)])

\* the comparison function given to sort
compare(a, b) ==
  LET aNumbers == numbersOf(a.id)
      bNumbers == numbersOf(b.id)
      differ == { i \in 1..maxOf(Len(aNumbers), Len(bNumbers)) :
                    orZero(aNumbers, i) # orZero(bNumbers, i) }
  IN  IF differ = {} THEN 0
      ELSE LET i == CHOOSE j \in differ : \A k \in differ : j <= k
           IN  orZero(aNumbers, i) - orZero(bNumbers, i)

\* sorted with t put in after the elements that do not compare greater
RECURSIVE insertTerm(_, _)
insertTerm(sorted, t) ==
  IF sorted = <<>> THEN <<t>>
  ELSE IF compare(Head(sorted), t) > 0 THEN <<t>> \o sorted
  ELSE <<Head(sorted)>> \o insertTerm(Tail(sorted), t)

\* Array.prototype.sort with a comparison function: stable
RECURSIVE sort(_)
sort(ts) ==
  IF ts = <<>> THEN <<>>
  ELSE insertTerm(sort(SubSeq(ts, 1, Len(ts) - 1)), ts[Len(ts)])

\* bug: terms.sort(...) without the copy
sortTermsInPlace(ts) == [terms |-> sort(ts), result |-> sort(ts)]

\* return [...terms].sort(...): the array given and the array returned
sortTerms(ts) == [terms |-> ts, result |-> sort(ts)]

\* convertToJson reaches the terms of a category
ConvertToJson ==
  /\ converterPc = "idle"
  /\ converterPc' = "sortTerms"
  /\ UNCHANGED <<categoryTerms, processedTerms>>
  /\ UNCHANGED <<variant, fields, pc, calls, parseHtmlLocals, termLocals,
                 contentLocals, history>>

\* processedTerms = sortTerms ? this.sortTerms(terms) : terms, with the option
\* at its default, true
SortTerms ==
  /\ converterPc = "sortTerms"
  /\ categoryTerms' = sortTerms(categoryTerms).terms
  /\ processedTerms' = sortTerms(categoryTerms).result
  /\ converterPc' = "sorted"
  /\ UNCHANGED <<variant, fields, pc, calls, parseHtmlLocals, termLocals,
                 contentLocals, history>>

\* a converter that is given the terms of a category
SortInit ==
  /\ ParserInit
  /\ variant = "multi"
  /\ categoryTerms \in TermLists
  /\ processedTerms = <<>>
  /\ converterPc = "idle"

SortNext ==
  \/ ConvertToJson
  \/ SortTerms

SortSpec == SortInit /\ [][SortNext]_vars

\* the steps of a pass
Step ==
  \/ ParseHtmlLoop
  \/ FindNextCategory
  \/ ParseTermsInCategory
  \/ ParseTermNameMultiLine
  \/ ParseTermContent

\* the first call on a new instance
FirstCall == ParseHtml /\ calls = 0

\* One pass under fairness: parseHtml is one synchronous call on one thread,
\* so that once it is called its next step is always taken.
FairSpec == Init /\ [][FirstCall \/ Step]_vars /\ WF_vars(Step)

(***************************************************************************)
(* Properties                                                              *)
(***************************************************************************)
\* the documents returned so far
Documents == { returned[k].document : k \in 1..Len(returned) }

RECURSIVE sumOfTerms(_)
sumOfTerms(cats) == IF cats = <<>> THEN 0 ELSE Len(Head(cats).terms) + sumOfTerms(Tail(cats))

allTerms(cats) == UNION { { cats[k].terms[m] : m \in 1..Len(cats[k].terms) } : k \in 1..Len(cats) }

\* C1: in every returned document metadata.totalTerms is the sum of
\* terms.length over the categories of the document, and
\* metadata.totalCategories is the number of its categories.
C1_TotalsAreRecounts ==
  \A d \in Documents :
    /\ d.metadata.totalTerms = sumOfTerms(d.categories)
    /\ d.metadata.totalCategories = Len(d.categories)

\* a document with two categories, one of two terms and one of one term
C1_Witness ==
  \E d \in Documents :
    /\ Len(d.categories) = 2
    /\ Len(d.categories[1].terms) = 2
    /\ Len(d.categories[2].terms) = 1
    /\ d.metadata.totalTerms = 3

\* the places <<category, term>> of a category list
allTermSlots(cats) ==
  UNION { { <<k, m>> : m \in 1..Len(cats[k].terms) } : k \in 1..Len(cats) }

\* C2: every term of a returned document, of the categories built so far and
\* of the term list being built has a non-empty definition; a term whose
\* content phase ends with an empty definition is in none of them and
\* totalTerms counts the terms kept only.
C2_DefinitionsNonEmpty ==
  /\ \A d \in Documents :
       /\ \A tm \in allTerms(d.categories) : tm.definition # <<>>
       /\ d.metadata.totalTerms = Cardinality(allTermSlots(d.categories))
  /\ \A tm \in allTerms(categories) : tm.definition # <<>>
  /\ \A m \in 1..Len(terms) : terms[m].definition # <<>>

\* a pass has returned a document after it kept one term and dropped another
C2_Witness ==
  /\ pc = "done"
  /\ Len(droppedAt) >= 1
  /\ \E d \in Documents : d.metadata.totalTerms >= 1 /\ d.metadata.extractedAt = calls

\* C3: every category of a returned document and of the list being built
\* has at least one term.
C3_CategoriesNonEmpty ==
  /\ \A d \in Documents : \A k \in 1..Len(d.categories) : Len(d.categories[k].terms) >= 1
  /\ \A k \in 1..Len(categories) : Len(categories[k].terms) >= 1

\* a pass has returned after it found a boundary that it did not push and
\* one that it pushed
C3_Witness ==
  /\ pc = "done"
  /\ Len(foundAt) = 2
  /\ Len(emittedAt) = 1
  /\ Len(returned[Len(returned)].document.categories) = 1

\* C4: every call of parseHtml returns: from the loop test of parseHtml the
\* pass reaches its return, whatever the blocks are.  (An access outside
\* `lines` or to a field that a record lacks would stop the check with an
\* error, which is how a raise would show.)
C4_PassTerminates == (pc = "parseHtml") ~> (pc = "done")

\* a pass has returned on blocks that end with a term id without name and
\* content, after a category id that had no title of its own
C4_Witness ==
  /\ pc = "done"
  /\ Len(lines) >= 3
  /\ isTermId(lines[Len(lines)])
  /\ isCategoryId(lines[1])
  /\ isCategoryId(lines[2])

\* C5 (the claim as stated): the cursor is never below 0 nor above the number
\* of blocks.
C5_CursorWithinBounds == 0 <= currentIndex /\ currentIndex <= Len(lines)

\* C6: within a pass no step moves the cursor back; only a new call of
\* parseHtml sets it to 0 again.
C6_CursorForwardOnly ==
  [][pc \notin {"idle", "done"} => currentIndex' >= currentIndex]_vars

\* the multi-line parser has returned a document with a term, so that the
\* outer loop, the inner loop, the name phase and the content phase have all
\* moved the cursor, up to the end of the blocks
C6_Witness ==
  /\ pc = "done"
  /\ variant = "multi"
  /\ currentIndex = Len(lines)
  /\ Len(lines) >= 6
  /\ \E d \in Documents : \E tm \in allTerms(d.categories) :
       Len(tm.term) >= 1 /\ "remark" \in DOMAIN tm

\* the ids of a category list in the order of emission: each category id
\* followed by the ids of its terms
RECURSIVE emittedIds(_)
emittedIds(cats) ==
  IF cats = <<>> THEN <<>>
  ELSE <<Head(cats).id>>
         \o [m \in 1..Len(Head(cats).terms) |-> Head(cats).terms[m].id]
         \o emittedIds(Tail(cats))

\* Is s got from t by deleting elements?
RECURSIVE isSubsequence(_, _)
isSubsequence(s, t) ==
  IF s = <<>> THEN TRUE
  ELSE IF t = <<>> THEN FALSE
  ELSE IF Head(s) = Head(t) THEN isSubsequence(Tail(s), Tail(t))
  ELSE isSubsequence(s, Tail(t))

\* C7: the ids of the emitted categories and terms, read in the order of
\* emission, occur in that order among the blocks of the input: the output
\* order is the order of the id blocks, whatever the numbers are.
C7_SourceOrder ==
  \A k \in 1..Len(returned) :
    isSubsequence(emittedIds(returned[k].document.categories), returned[k].lines)

\* a document with category 3.2 before category 3.1 and, under 3.2, term 3.1.2
\* before term 3.1.1
C7_Witness ==
  \E d \in Documents :
    /\ Len(d.categories) = 2
    /\ d.categories[1].id = cat2
    /\ d.categories[2].id = cat1
    /\ Len(d.categories[1].terms) = 2
    /\ d.categories[1].terms[1].id = tid2
    /\ d.categories[1].terms[2].id = tid1

\* C8: two calls on the same instance that were given the same blocks have
\* returned the same categories, terms and counts.
C8_SameBlocksSameDocument ==
  \A i \in 1..Len(returned), j \in 1..Len(returned) :
    returned[i].lines = returned[j].lines =>
      /\ returned[i].document.categories = returned[j].document.categories
      /\ returned[i].document.metadata.totalTerms = returned[j].document.metadata.totalTerms
      /\ returned[i].document.metadata.totalCategories
           = returned[j].document.metadata.totalCategories

\* the second call has returned; the documents have a category with a term
\* and differ in extractedAt
C8_Witness ==
  /\ Len(returned) = 2
  /\ returned[1].lines = returned[2].lines
  /\ Len(returned[2].document.categories) >= 1
  /\ returned[1].document.metadata.extractedAt # returned[2].document.metadata.extractedAt

\* Is there a term-id block after the boundary at p (id block p, title block
\* p + 1) and before the next category-id block?
termIdFollows(p) ==
  \E q \in (p + 2)..(Len(lines) - 1) :
    /\ isTermId(lineAt(q))
    /\ \A m \in (p + 2)..(q - 1) : ~isCategoryId(lineAt(m))

\* C9: a category is pushed only for a boundary that has a term-id block
\* between its title and the next category-id block; so a boundary followed
\* at once by a category boundary gives no category.
C9_NoCategoryWithoutTermId ==
  \A k \in 1..Len(emittedAt) : termIdFollows(emittedAt[k])

\* a pass has returned; its first boundary was followed at once by the second
\* boundary, and only the second was pushed
C9_Witness ==
  /\ pc = "done"
  /\ Len(foundAt) = 2
  /\ foundAt[2] = foundAt[1] + 2
  /\ isCategoryId(lineAt(foundAt[1] + 2))
  /\ emittedAt = <<foundAt[2]>>

\* the text between the first and the last character of a block
innerText(line) == SubSeq(line, 2, Len(line) - 1)

\* C10 (the claim as stated): when the content phase reads a block that is
\* wrapped in full-width parentheses or full-width square brackets, the
\* remark becomes the text inside the brackets.
C10_RemarkIsInnerText ==
  [][(pc = "parseTermContent" /\ currentIndex < Len(lines)
        /\ isRemarkLine(lineAt(currentIndex)))
      => remark' = innerText(lineAt(currentIndex))]_vars

(***************************************************************************)
(* The content of a term                                                   *)
(***************************************************************************)
lastDocument == returned[Len(returned)].document

noteMarker == <<"chuu", "kigou">>
exampleMarker == <<"rei">>

isMarker(line) == startsWith(line, noteMarker) \/ startsWith(line, exampleMarker)

\* the content blocks of a kept term k, in source order
contentBlocks(k) == [i \in 1..(k.end - k.content) |-> lineAt(k.content + i - 1)]

\* C11: once parseTermContent has left the definition state it never comes
\* back to it and the definition is what it was at that moment; hence no term
\* whose first content block is a note or example marker is kept, and when
\* the only term of the only category found is dropped the document has no
\* categories and both counts are 0.
C11_DefinitionBeforeNotes ==
  /\ [][(pc = "parseTermContent" /\ currentState # "definition")
          => /\ pc' = "parseTermContent"
                  => currentState' # "definition" /\ definition' = definition
             /\ Len(keptAt') > Len(keptAt)
                  => keptAt'[Len(keptAt')].def.definition = definition]_vars
  /\ [](\A n \in 1..Len(keptAt) :
          keptAt[n].content < keptAt[n].end => ~isMarker(lineAt(keptAt[n].content)))
  /\ []((pc = "done" /\ Len(foundAt) = 1 /\ Len(droppedAt) = 1 /\ keptAt = <<>>)
          => /\ lastDocument.categories = <<>>
             /\ lastDocument.metadata.totalTerms = 0
             /\ lastDocument.metadata.totalCategories = 0)

\* category id, title, term id, name, note: the term is dropped and the
\* document is empty
C11_Witness ==
  /\ pc = "done"
  /\ Len(foundAt) = 1
  /\ droppedAt = <<2>>
  /\ keptAt = <<>>
  /\ contentAt = 4
  /\ Len(lines) = 5
  /\ startsWith(lineAt(contentAt), noteMarker)
  /\ lastDocument.categories = <<>>
  /\ lastDocument.metadata.totalTerms = 0

(***************************************************************************)
(* The name of a term                                                      *)
(***************************************************************************)
\* the index of the first block from i on that is a boundary or is classified
\* as definition text, or the length of the document
RECURSIVE nameEnd(_)
nameEnd(i) ==
  IF i >= Len(lines) \/ isBoundary(lineAt(i)) \/ isDefinitionLine(lineAt(i)) THEN i
  ELSE nameEnd(i + 1)

\* the blocks i .. j-1 one after the other, with nothing between them
RECURSIVE concatLines(_, _)
concatLines(i, j) == IF i >= j THEN <<>> ELSE lineAt(i) \o concatLines(i + 1, j)

hasParenthesis(s) == \E i \in DOMAIN s : s[i] \in {"FW(", "FW)", "(", ")"}

\* the kept term k has a name of several blocks, and it is all of them
nameIsAllNameBlocks(k) ==
  LET e    == nameEnd(k.at + 1)
      name == concatLines(k.at + 1, e)
  IN  e - (k.at + 1) >= 2
        => /\ k.content = e
           /\ ~hasParenthesis(name)
                => k.def.term = name /\ "englishTerm" \notin DOMAIN k.def

\* C12 (as stated): when the id block of a kept term is followed by several
\* blocks that are neither boundaries nor definition text, the content of the
\* term starts after the last of them and the term is their concatenation.
C12_NameIsAllNameBlocks == \A n \in 1..Len(keptAt) : nameIsAllNameBlocks(keptAt[n])

\* C12 (amended): the same, of the parser that reads the name with
\* parseTermNameMultiLine; the other parser takes one block as the name.
C12_MultiLineNameIsAllNameBlocks ==
  variant = "multi" => \A n \in 1..Len(keptAt) : nameIsAllNameBlocks(keptAt[n])

\* a term is kept whose name is made of two blocks
C12_Witness ==
  /\ variant = "multi"
  /\ \E n \in 1..Len(keptAt) :
       /\ keptAt[n].content = keptAt[n].at + 3
       /\ keptAt[n].def.term = plain \o plain
       /\ keptAt[n].def.definition = sentence

(***************************************************************************)
(* The well-formed document of one category and one term                   *)
(***************************************************************************)
Parentheses == {"FW(", "FW)", "(", ")"}

\* a run of characters with no parenthesis, no comma and no white space
isSimple(s) ==
  s # <<>> /\ \A i \in DOMAIN s : s[i] \notin Parentheses \cup WhiteSpace \cup {"FW,", ","}

\* P（S）
isBilingualName(b) ==
  \E i \in 2..(Len(b) - 2) :
    /\ b[i] = "FW(" /\ b[Len(b)] = "FW)"
    /\ \A j \in DOMAIN b : j \notin {i, Len(b)} => b[j] \notin Parentheses

primaryOf(b) == SubSeq(b, 1, indexOfAny(b, {"FW("}, 1) - 1)
secondaryOf(b) == SubSeq(b, indexOfAny(b, {"FW("}, 1) + 1, Len(b) - 1)

\* category id, title, term id, P（S）, a block of content that is neither a
\* marker nor a remark
isOneTermDocument(ls) ==
  /\ Len(ls) = 5
  /\ isCategoryId(ls[1])
  /\ ~isBoundary(ls[2])
  /\ isTermId(ls[3])
  /\ isBilingualName(ls[4])
  /\ ~isBoundary(ls[5]) /\ ~isMarker(ls[5]) /\ ~isRemarkLine(ls[5])

\* ... where the heuristic of the multi-line parser takes the name for a
\* name and the definition for a definition
isClassifiedOneTermDocument(ls) ==
  /\ isOneTermDocument(ls)
  /\ isSimple(primaryOf(ls[4])) /\ isSimple(secondaryOf(ls[4]))
  /\ ~isDefinitionLine(ls[4])
  /\ isDefinitionLine(ls[5])

oneTermDocument(ls, d) ==
  /\ d.categories =
       << [id |-> ls[1], name |-> ls[2],
           terms |-> << [id |-> ls[3], term |-> primaryOf(ls[4]),
                         englishTerm |-> secondaryOf(ls[4]), definition |-> ls[5]] >>] >>
  /\ d.metadata.totalTerms = 1
  /\ d.metadata.totalCategories = 1

\* C13 (as stated): a document of the blocks category id, title, term id,
\* P（S）, definition is returned as one category with one term whose term is
\* P, englishTerm S and definition the last block; both counts are 1.
C13_OneTermDocument ==
  \A n \in 1..Len(returned) :
    isOneTermDocument(returned[n].lines)
      => oneTermDocument(returned[n].lines, returned[n].document)

\* C13 (amended): the same when P and S are plain, the name block holds no
\* marker of isDefinitionLine and the definition block holds one.
C13_ClassifiedOneTermDocument ==
  \A n \in 1..Len(returned) :
    isClassifiedOneTermDocument(returned[n].lines)
      => oneTermDocument(returned[n].lines, returned[n].document)

C13_Witness ==
  /\ Len(returned) > 0
  /\ returned[1].lines = <<cat1, plain, tid1, bilingual, sentence>>
  /\ isClassifiedOneTermDocument(returned[1].lines)
  /\ oneTermDocument(returned[1].lines, returned[1].document)

(***************************************************************************)
(* Names of several sub-terms                                              *)
(***************************************************************************)
\* the name of the kept term k as it stands in the document
nameOf(k) == concatLines(k.at + 1, k.content)

\* P1（S1），P2（S2）...: at least two sub-terms, each of a plain primary and a
\* plain secondary
isMultipleName(name) ==
  LET parts == split(name, "FW,")
  IN  /\ Len(parts) >= 2
      /\ \A i \in DOMAIN parts :
           /\ isBilingualName(parts[i])
           /\ isSimple(primaryOf(parts[i])) /\ isSimple(secondaryOf(parts[i]))

primaries(name) ==
  LET parts == split(name, "FW,") IN [i \in DOMAIN parts |-> primaryOf(parts[i])]

secondaries(name) ==
  LET parts == split(name, "FW,") IN [i \in DOMAIN parts |-> secondaryOf(parts[i])]

keepsAllSubTerms(k) ==
  isMultipleName(nameOf(k))
    => /\ k.def.term = join(primaries(nameOf(k)), <<"FW,">>)
       /\ "englishTerm" \in DOMAIN k.def
       /\ k.def.englishTerm = join(secondaries(nameOf(k)), <<",", " ">>)

returnedTerms == UNION { allTerms(d.categories) : d \in Documents }

\* C15: a returned term that has the field notes has at least one note, and
\* one that has the field examples has at least one example: a term with
\* none has no such field.
C15_NoEmptyLists ==
  \A t \in returnedTerms :
    /\ "notes" \in DOMAIN t => Len(t.notes) > 0
    /\ "examples" \in DOMAIN t => Len(t.examples) > 0

\* a term with a note and no example has been returned
C15_Witness ==
  \E t \in returnedTerms :
    /\ "notes" \in DOMAIN t /\ t.notes # <<>>
    /\ "examples" \notin DOMAIN t

(***************************************************************************)
(* Documents with nothing to recognize                                     *)
(***************************************************************************)
\* no block is a category id, or no block is a term id
isWithoutCategory(ls) ==
  \/ \A i \in DOMAIN ls : ~isCategoryId(ls[i])
  \/ \A i \in DOMAIN ls : ~isTermId(ls[i])

isEmptyDocument(d) ==
  /\ d.categories = <<>>
  /\ d.metadata.totalTerms = 0
  /\ d.metadata.totalCategories = 0

\* C16: a call on blocks among which there is no category id, or no term
\* id under any category, returns a document with no categories and both
\* counts 0.
C16_NothingRecognized ==
  \A n \in 1..Len(returned) :
    isWithoutCategory(returned[n].lines) => isEmptyDocument(returned[n].document)

\* a call on category ids and titles only has returned the empty document
C16_Witness ==
  /\ pc = "done"
  /\ Len(foundAt) = 2
  /\ isWithoutCategory(lines)
  /\ isEmptyDocument(lastDocument)

\* the indices of the bracketed blocks among the content blocks of the kept term k
remarkBlocks(k) == { i \in k.content..(k.end - 1) : isRemarkLine(lineAt(i)) }

lastOf(S) == CHOOSE i \in S : \A j \in S : j <= i

\* C17: the remark of a kept term is one string, taken from the last
\* bracketed block among the content blocks of the term; a term with no such
\* block has no remark.
C17_LastRemarkWins ==
  \A n \in 1..Len(keptAt) :
    LET k == keptAt[n]
    IN  IF remarkBlocks(k) = {} THEN "remark" \notin DOMAIN k.def
        ELSE LET last == remarkOf(variant, lineAt(lastOf(remarkBlocks(k))))
             IN  IF Truthy(last)
                 THEN "remark" \in DOMAIN k.def /\ k.def.remark = last
                 ELSE "remark" \notin DOMAIN k.def

\* a term with two different bracketed blocks is kept with the second as remark
C17_Witness ==
  \E n \in 1..Len(keptAt) :
    /\ Cardinality(remarkBlocks(keptAt[n])) = 2
    /\ \E i, j \in remarkBlocks(keptAt[n]) : i < j /\ lineAt(i) # lineAt(j)
    /\ keptAt[n].def.remark = remarkSquare

(***************************************************************************)
(* Id blocks                                                               *)
(***************************************************************************)
\* C18: the block taken as the title of the category at hand is not an id
\* block, and no block between the id block of a kept term and the block
\* that ended the term (its name and its content) is an id block.
C18_IdsAreNeverConsumed ==
  /\ categoryInfo # NoCategory => ~isBoundary(lineAt(boundaryAt + 1))
  /\ \A n \in 1..Len(keptAt) :
       \A i \in (keptAt[n].at + 1)..(keptAt[n].end - 1) : ~isBoundary(lineAt(i))

(***************************************************************************)
(* The text of the definition                                              *)
(***************************************************************************)
\* the blocks i .. e-1 read in the definition state, one after the other:
\* those before the first note or example marker that are not bracketed
RECURSIVE definitionText(_, _)
definitionText(i, e) ==
  IF i >= e \/ isMarker(lineAt(i)) THEN <<>>
  ELSE (IF isRemarkLine(lineAt(i)) THEN <<>> ELSE lineAt(i)) \o definitionText(i + 1, e)

\* C19: the definition of a kept term is the concatenation, in order, of all
\* the content blocks of the term read in the definition state, those before
\* a bracketed block as well as those after it.
C19_DefinitionIsAllDefinitionBlocks ==
  \A n \in 1..Len(keptAt) :
    keptAt[n].def.definition = definitionText(keptAt[n].content, keptAt[n].end)

(***************************************************************************)
(* The text of the notes and examples                                      *)
(***************************************************************************)
\* C20: whatever block ended it (a note marker, an example marker, a
\* bracketed block, a boundary or the end of the document), no note of a
\* kept term starts with the note marker and no example with the example
\* marker.
C20_MarkersAreStripped ==
  \A n \in 1..Len(keptAt) :
    LET t == keptAt[n].def
    IN  /\ "notes" \in DOMAIN t
             => \A i \in DOMAIN t.notes : ~startsWith(t.notes[i], noteMarker)
        /\ "examples" \in DOMAIN t
             => \A i \in DOMAIN t.examples : ~startsWith(t.examples[i], exampleMarker)

(***************************************************************************)
(* A term id followed by a boundary                                        *)
(***************************************************************************)
\* C21: when the block after the id block of a term is an id block, no term
\* is kept for the first id, and the term is dropped with the cursor at that
\* second id block, which has not been consumed.
C21_BoundaryAfterTermId ==
  /\ [](\A n \in 1..Len(keptAt) : ~isBoundary(lineAt(keptAt[n].at + 1)))
  /\ [][(Len(droppedAt') > Len(droppedAt) /\ isBoundary(lineAt(termAt + 1)))
          => currentIndex' = termAt + 1]_vars

(***************************************************************************)
(* Dropped terms                                                           *)
(***************************************************************************)
sameOutput(d, e) ==
  /\ d.categories = e.categories
  /\ d.metadata.totalTerms = e.metadata.totalTerms
  /\ d.metadata.totalCategories = e.metadata.totalCategories

\* C22: a term is dropped with the cursor at a boundary block or at the end
\* of the document; no block of a dropped term is in the range of a kept
\* term; and a call on the same blocks without those of the dropped terms
\* returns the same categories, terms and counts.
C22_DroppedTermsLeaveNoTrace ==
  /\ [][Len(droppedAt') > Len(droppedAt)
          => currentIndex' >= Len(lines) \/ isBoundary(lineAt(currentIndex'))]_vars
  /\ [](\A n \in 1..Len(keptAt) :
          keptAt[n].at..(keptAt[n].end - 1) \cap droppedBlocks = {})
  /\ [](\A n \in 1..(Len(returned) - 1) :
          returned[n + 1].lines = removeBlocks(returned[n].lines, returned[n].dropped, 0)
            => sameOutput(returned[n].document, returned[n + 1].document))

\* a call dropped a term with a note and kept the term after it, and the
\* next call, on the blocks without those of the dropped term, has returned
C22_Witness ==
  /\ Len(returned) = 2
  /\ Cardinality(returned[1].dropped) >= 3
  /\ returned[2].lines # returned[1].lines
  /\ returned[2].lines = removeBlocks(returned[1].lines, returned[1].dropped, 0)
  /\ returned[2].document.metadata.totalTerms >= 1

(***************************************************************************)
(* The hand-over from the term loop to the category loop                   *)
(***************************************************************************)
\* the blocks the terms of the call have consumed
termBlocks ==
  droppedBlocks \cup UNION { keptAt[n].at..(keptAt[n].end - 1) : n \in 1..Len(keptAt) }

\* the id and title blocks of the categories the call has found
categoryBlocks ==
  UNION { {foundAt[n], foundAt[n] + 1} : n \in 1..Len(foundAt) }

\* C23: the term loop stops without moving the cursor, at the end of the
\* document or at a category-id block nothing has consumed; the next search
\* for a category starts the category at exactly that block; and no
\* category-id block is among the blocks consumed by the terms.
C23_CategoryIdIsHandedOver ==
  /\ [][(pc = "parseTermsInCategory" /\ pc' = "parseHtml")
          => /\ currentIndex' = currentIndex
             /\ \/ currentIndex >= Len(lines)
                \/ /\ isCategoryId(lineAt(currentIndex))
                   /\ currentIndex \notin termBlocks \cup categoryBlocks]_vars
  /\ [][(pc = "findNextCategory" /\ foundAt # <<>> /\ currentIndex + 1 < Len(lines))
          => foundAt' = Append(foundAt, currentIndex)]_vars
  /\ [](\A i \in termBlocks : ~isCategoryId(lineAt(i)))

(***************************************************************************)
(* The title of a category                                                 *)
(***************************************************************************)
\* the paragraphs of the document that are not blank
nonBlank == { p \in 1..Len(html) : trim(html[p]) # <<>> }

\* the paragraph of the document that block i of the call comes from
paragraphOf(i) ==
  CHOOSE p \in nonBlank : Cardinality({ q \in nonBlank : q < p }) = i

\* the first paragraph after p that is not blank
nextNonBlank(p) ==
  CHOOSE q \in nonBlank : q > p /\ \A r \in nonBlank : r > p => q <= r

\* C24: when the search is at a category-id paragraph and a paragraph that
\* is not blank follows it, however many blank paragraphs lie between, the
\* category is formed with that id and with that paragraph as its title, and
\* every category of the result has the id and the title of its two blocks.
C24_TitleIsNextNonBlank ==
  /\ [][(/\ pc = "findNextCategory"
          /\ currentIndex < Cardinality(nonBlank)
          /\ isCategoryId(trim(html[paragraphOf(currentIndex)]))
          /\ \E q \in nonBlank : q > paragraphOf(currentIndex))
          => /\ pc' = "parseTermsInCategory"
             /\ categoryInfo' =
                  [id |-> trim(html[paragraphOf(currentIndex)]),
                   title |-> trim(html[nextNonBlank(paragraphOf(currentIndex))])]]_vars
  /\ [](\A k \in 1..Len(categories) :
          /\ categories[k].id = lineAt(emittedAt[k])
          /\ categories[k].name = lineAt(emittedAt[k] + 1))

\* a category whose id and title paragraphs have a blank paragraph between
\* them has been pushed with its term
C24_Witness ==
  /\ Len(html) >= 3 /\ html[1] = cat1 /\ html[2] = blank /\ html[3] = plain
  /\ Len(categories) = 1
  /\ categories[1].id = cat1 /\ categories[1].name = plain

(***************************************************************************)
(* Remarks and the classifier state                                        *)
(***************************************************************************)
\* the block at the cursor is read by the loop of parseTermContent
readsBlock ==
  /\ pc = "parseTermContent"
  /\ currentIndex < Len(lines)
  /\ ~isBoundary(lineAt(currentIndex))

isContinuation(line) ==
  /\ ~isRemarkLine(line)
  /\ ~startsWith(line, noteMarker)
  /\ ~startsWith(line, exampleMarker)

\* C25: a remark block leaves the classifier state as it is, saves the text
\* accumulated so far under that state and empties the accumulator; a
\* continuation block leaves the state as it is too and is added to the
\* accumulator, so the text after a remark is collected under the state
\* that was current before the remark.
C25_RemarkKeepsState ==
  /\ [][(readsBlock /\ isRemarkLine(lineAt(currentIndex)))
          => /\ currentState' = currentState
             /\ currentContent' = <<>>
             /\ [definition |-> definition', notes |-> notes', examples |-> examples']
                  = saveContent(variant, "remark", currentState, currentContent,
                      [definition |-> definition, notes |-> notes, examples |-> examples])]_vars
  /\ [][(readsBlock /\ isContinuation(lineAt(currentIndex)))
          => /\ currentState' = currentState
             /\ currentContent' = currentContent \o lineAt(currentIndex)]_vars

\* in a note, a remark block and then a continuation block have been read:
\* the state is still the note state and the accumulator holds the
\* continuation block alone
C25_Witness ==
  /\ pc = "parseTermContent"
  /\ currentIndex >= 3
  /\ startsWith(lineAt(currentIndex - 3), noteMarker)
  /\ isRemarkLine(lineAt(currentIndex - 2))
  /\ isContinuation(lineAt(currentIndex - 1))
  /\ contentAt <= currentIndex - 3
  /\ currentState = "note"
  /\ currentContent = lineAt(currentIndex - 1)

(***************************************************************************)
(* Terms and their categories                                              *)
(***************************************************************************)
\* id is categoryId followed by a dot and a last component
isUnder(id, categoryId) ==
  /\ Len(id) > Len(categoryId) + 1
  /\ SubSeq(id, 1, Len(categoryId)) = categoryId
  /\ id[Len(categoryId) + 1] = "."
  /\ \A p \in (Len(categoryId) + 2)..Len(id) : id[p] # "."

\* C26: the id of every term of a category is the id of the category
\* followed by one more component.
C26_TermIdHasCategoryPrefix ==
  \A k \in 1..Len(categories) :
    \A t \in 1..Len(categories[k].terms) :
      isUnder(categories[k].terms[t].id, categories[k].id)

\* C27: every term that is kept, in the list of the current category and in
\* the categories pushed so far, has a term name that is not empty.
C27_TermNameIsNotEmpty ==
  /\ \A t \in 1..Len(terms) : terms[t].term # <<>>
  /\ \A k \in 1..Len(categories) :
       \A t \in 1..Len(categories[k].terms) : categories[k].terms[t].term # <<>>

(***************************************************************************)
(* Notes, examples and their markers                                       *)
(***************************************************************************)
\* the content blocks of the kept term k that start with marker
markerBlocks(k, marker) ==
  { i \in k.content..(k.end - 1) : startsWith(lineAt(i), marker) }

\* the number of entries of an optional list of a term
entries(t, field) == IF field \in DOMAIN t THEN Len(t[field]) ELSE 0

\* C28: a kept term has as many notes as it has content blocks starting
\* with the note marker, and as many examples as it has content blocks
\* starting with the example marker.
C28_OneEntryPerMarker ==
  \A n \in 1..Len(keptAt) :
    /\ entries(keptAt[n].def, "notes")
         = Cardinality(markerBlocks(keptAt[n], noteMarker))
    /\ entries(keptAt[n].def, "examples")
         = Cardinality(markerBlocks(keptAt[n], exampleMarker))

(***************************************************************************)
(* Unrecognized blocks before the first term of a category                 *)
(***************************************************************************)
\* C29: the term loop passes an unrecognized block by moving the cursor one
\* block on and changing nothing else; and a call on the blocks of an
\* earlier call with one unrecognized block more, put in directly after the
\* title block of one of its categories, returns the same categories, terms
\* and counts.
C29_StrayBlocksAreIgnored ==
  /\ [][(/\ pc = "parseTermsInCategory"
          /\ currentIndex < Len(lines)
          /\ ~isBoundary(lineAt(currentIndex)))
          => /\ currentIndex' = currentIndex + 1
             /\ UNCHANGED <<pc, parseHtmlLocals, termLocals, contentLocals,
                            keptAt, droppedAt>>]_vars
  /\ [](\A n \in 1..(Len(returned) - 1) :
          \A k \in DOMAIN returned[n].found :
            returned[n + 1].lines
                = insertBlock(returned[n].lines, returned[n].found[k] + 2, stray)
              => sameOutput(returned[n].document, returned[n + 1].document))

\* a call kept a term of a category whose title is directly followed by the
\* id of the term, and the next call, on the same blocks with an
\* unrecognized block between the two, has returned
C29_Witness ==
  /\ Len(returned) = 2
  /\ returned[1].document.metadata.totalTerms >= 1
  /\ \E k \in DOMAIN returned[1].found :
       /\ returned[1].found[k] + 3 \in DOMAIN returned[1].lines
       /\ isTermId(returned[1].lines[returned[1].found[k] + 3])
       /\ returned[2].lines
            = insertBlock(returned[1].lines, returned[1].found[k] + 2, stray)
       /\ k \in DOMAIN returned[1].document.categories
       /\ returned[1].document.categories[k].id = returned[1].lines[returned[1].found[k] + 1]

(***************************************************************************)
(* The order of the terms in the JSON document                             *)
(***************************************************************************)
\* the components of an id as n numbers, a missing component being 0
keyOf(id, n) == [i \in 1..n |-> orZero(numbersOf(id), i)]

keyLength(ts) ==
  IF ts = <<>> THEN 0
  ELSE CHOOSE n \in 1..6 :
         /\ \E i \in DOMAIN ts : Len(numbersOf(ts[i].id)) = n
         /\ \A i \in DOMAIN ts : Len(numbersOf(ts[i].id)) <= n

\* u is before v: at the first place where they differ u has the lesser number
keyLess(u, v) ==
  \E i \in DOMAIN u : u[i] < v[i] /\ \A j \in 1..(i - 1) : u[j] = v[j]

occurrences(ts, t) == Cardinality({ i \in DOMAIN ts : ts[i] = t })

withKey(ts, key, n) == SelectSeq(ts, LAMBDA t : keyOf(t.id, n) = key)

\* C30: sortTerms leaves the list it is given as it was, and the list it
\* returns holds the same terms the same number of times, has no term before
\* one with a lesser id (the components compared as numbers, a missing one
\* as 0), and holds the terms of equal id in the order they had in the list
\* given.
C30_SortTermsSortsACopy ==
  /\ [][converterPc' = "sorted" => categoryTerms' = categoryTerms]_vars
  /\ [](converterPc = "sorted" =>
         LET n == keyLength(categoryTerms)
         IN  /\ Len(processedTerms) = Len(categoryTerms)
             /\ \A t \in SortTermDefs :
                  occurrences(processedTerms, t) = occurrences(categoryTerms, t)
             /\ \A i, j \in DOMAIN processedTerms :
                  i < j => ~keyLess(keyOf(processedTerms[j].id, n),
                                    keyOf(processedTerms[i].id, n))
             /\ \A t \in SortTermDefs :
                  withKey(processedTerms, keyOf(t.id, n), n)
                    = withKey(categoryTerms, keyOf(t.id, n), n))

\* 3.1.10, 3.1.0 and 3.1 were given in this order: 3.1.0 and 3.1 are
\* returned first, in that order, and 3.1.10 last, and the list given is
\* still as it was
C30_Witness ==
  /\ converterPc = "sorted"
  /\ Len(categoryTerms) = 3
  /\ categoryTerms[1].id = <<"3", ".", "1", ".", "1", "0">>
  /\ categoryTerms[2].id = <<"3", ".", "1", ".", "0">>
  /\ categoryTerms[3].id = <<"3", ".", "1">>
  /\ processedTerms = <<categoryTerms[2], categoryTerms[3], categoryTerms[1]>>

\* 3.1.10 was given before 3.1.2 and is returned after it
C30_Witness2 ==
  /\ converterPc = "sorted"
  /\ Len(categoryTerms) = 2
  /\ categoryTerms[1].id = <<"3", ".", "1", ".", "1", "0">>
  /\ categoryTerms[2].id = <<"3", ".", "1", ".", "2">>
  /\ processedTerms = <<categoryTerms[2], categoryTerms[1]>>


====
